---- MODULE Spec2Model ----
(***************************************************************************)
(* Model of packages/ts-transformers/src/preserve-blank-lines.ts: the      *)
(* preserveBlankLinesTransformer pass and PreserveBlankLinesTransformer    *)
(* .addComments, over source texts kept as sequences of characters and     *)
(* trees kept as pre-order lists of nodes with TypeScript's offsets.       *)
(***************************************************************************)
EXTENDS Integers, Sequences, FiniteSets, TLC

(***************************************************************************)
(* Bounds of the inputs.                                                   *)
(***************************************************************************)
\* comments in the whole file
MaxComments == 2
\* newline characters in one gap of a trivia region
MaxNewlines == 3

(***************************************************************************)
(* Characters and strings.  Offsets are 0-based as in JavaScript.          *)
(***************************************************************************)
NL == "\n"
SP == " "
SLASH == "/"
STAR == "*"
EOF == "<eof>"

SingleLineCommentTrivia == "SingleLineCommentTrivia"
MultiLineCommentTrivia == "MultiLineCommentTrivia"

\* the placeholder is one opaque symbol of the alphabet
BLANK_LINE_PLACEHOLDER_COMMENT == <<"__BLANK_LINE_PLACEHOLDER_G1JVXUEBNCL6YN5NFE13MD1PT3H9OIHB__">>

Min(a, b) == IF a < b THEN a ELSE b
Max(a, b) == IF a > b THEN a ELSE b

\* str.charCodeAt(i); EOF stands for NaN past the end
CharAt(str, i) == IF i >= 0 /\ i < Len(str) THEN str[i + 1] ELSE EOF

\* String.prototype.slice(a, b) for 0 <= a
Slice(str, a, b) == SubSeq(str, a + 1, Min(b, Len(str)))

RECURSIVE Concat(_)
Concat(ss) == IF ss = <<>> THEN <<>> ELSE Head(ss) \o Concat(Tail(ss))

Repeat(x, k) == [i \in 1..k |-> x]

(***************************************************************************)
(* TypeScript scanner functions the transformer calls.                     *)
(***************************************************************************)
\* end of a "//" comment: the offset of the next line break, or the end of the text
RECURSIVE EndOfSingleLine(_, _)
EndOfSingleLine(str, pos) ==
    IF pos >= Len(str) \/ CharAt(str, pos) = NL THEN pos
    ELSE EndOfSingleLine(str, pos + 1)

\* end of a "/*" comment: the offset after the closing "*/", or the end of the text
RECURSIVE EndOfMultiLine(_, _)
EndOfMultiLine(str, pos) ==
    IF pos >= Len(str) THEN pos
    ELSE IF CharAt(str, pos) = STAR /\ CharAt(str, pos + 1) = SLASH THEN pos + 2
    ELSE EndOfMultiLine(str, pos + 1)

\* ts.skipTrivia(text, pos): the offset of the first character that is not trivia
RECURSIVE skipTrivia(_, _)
skipTrivia(str, pos) ==
    LET ch == CharAt(str, pos)
        nx == CharAt(str, pos + 1)
    IN  IF pos >= Len(str) THEN pos
        ELSE IF ch = NL \/ ch = SP THEN skipTrivia(str, pos + 1)
        ELSE IF ch = SLASH /\ nx = SLASH THEN skipTrivia(str, EndOfSingleLine(str, pos + 2))
        ELSE IF ch = SLASH /\ nx = STAR THEN skipTrivia(str, EndOfMultiLine(str, pos + 2))
        ELSE pos

\* a newline seen by the comment scanner marks the pending comment range
MarkTrailingNewLine(acc) ==
    IF acc = <<>> THEN acc
    ELSE [acc EXCEPT ![Len(acc)].hasTrailingNewLine = TRUE]

\* the loop of ts.getLeadingCommentRanges: comments are collected from the
\* first line break on (from the start when pos is 0)
RECURSIVE iterateCommentRanges(_, _, _, _)
iterateCommentRanges(str, pos, collecting, acc) ==
    LET ch == CharAt(str, pos)
        nx == CharAt(str, pos + 1)
    IN  IF pos >= Len(str) THEN acc
        ELSE IF ch = NL THEN iterateCommentRanges(str, pos + 1, TRUE, MarkTrailingNewLine(acc))
        ELSE IF ch = SP THEN iterateCommentRanges(str, pos + 1, collecting, acc)
        ELSE IF ch = SLASH /\ nx = SLASH THEN
            LET e == EndOfSingleLine(str, pos + 2)
                c == [pos |-> pos, end |-> e, kind |-> SingleLineCommentTrivia,
                      hasTrailingNewLine |-> e < Len(str)]
            IN  iterateCommentRanges(str, e, collecting,
                                     IF collecting THEN Append(acc, c) ELSE acc)
        ELSE IF ch = SLASH /\ nx = STAR THEN
            LET e == EndOfMultiLine(str, pos + 2)
                c == [pos |-> pos, end |-> e, kind |-> MultiLineCommentTrivia,
                      hasTrailingNewLine |-> FALSE]
            IN  iterateCommentRanges(str, e, collecting,
                                     IF collecting THEN Append(acc, c) ELSE acc)
        ELSE acc

\* ts.getLeadingCommentRanges(text, pos) ?? []
getLeadingCommentRanges(str, pos) == iterateCommentRanges(str, pos, pos = 0, <<>>)

(***************************************************************************)
(* countBlankLines                                                         *)
(***************************************************************************)
RECURSIVE CountNewLines(_)
CountNewLines(str) ==
    IF str = <<>> THEN 0
    ELSE (IF Head(str) = NL THEN 1 ELSE 0) + CountNewLines(Tail(str))

\* mutation: the newline that ends the previous line counts as a blank line
countBlankLines_EveryNewLine(str) == CountNewLines(str)

countBlankLines(str) == Max(0, CountNewLines(str) - 1)

(***************************************************************************)
(* BLANK_LINE_PLACEHOLDER_COMMENT_REGEXP, applied to a printed text.       *)
(***************************************************************************)
\* \s* at index i of str: the index after the whitespace
RECURSIVE SkipSpace(_, _)
SkipSpace(str, i) ==
    IF i <= Len(str) /\ (str[i] = NL \/ str[i] = SP) THEN SkipSpace(str, i + 1) ELSE i

\* str.replace(BLANK_LINE_PLACEHOLDER_COMMENT_REGEXP, '\n'), from index i on
RECURSIVE Substituted(_, _)
Substituted(str, i) ==
    IF i > Len(str) THEN <<>>
    ELSE LET j == SkipSpace(str, i)
         IN  IF j + 2 <= Len(str) /\ str[j] = SLASH /\ str[j + 1] = SLASH /\ <<str[j + 2]>> = BLANK_LINE_PLACEHOLDER_COMMENT
             THEN <<NL>> \o Substituted(str, j + 3)
             ELSE <<str[i]>> \o Substituted(str, i + 1)

(***************************************************************************)
(* Input files: a text and the tree a parser builds for it.  A file is a   *)
(* list of one-character tokens "a", each preceded by its leading trivia:  *)
(* gaps of newlines around "//ci" and "/*ci\nx*/" comments.  Every token is  *)
(* a node; each has `share` nested nodes that begin at the same token      *)
(* (VariableStatement > VariableDeclarationList); with `member` the first  *)
(* node spans the whole text and the later tokens are its indented         *)
(* children (class members).  A file has one token, or two of which the    *)
(* first begins the text.                                                  *)
(***************************************************************************)
\* nested nodes that begin at the same token as their parent
MaxShare == 1

TOKEN == "a"
SourceFile == "SourceFile"
OtherNode == "Node"

CommentKinds == {SingleLineCommentTrivia, MultiLineCommentTrivia}

\* the i-th comment of a region: "//ci" or "/*ci\nx*/"
Letter(i) == <<"c", ToString(i)>>

CommentChars(kind, i) ==
    IF kind = SingleLineCommentTrivia THEN <<SLASH, SLASH>> \o Letter(i)
    ELSE <<SLASH, STAR>> \o Letter(i) \o <<NL, "x", STAR, SLASH>>

OtherKind(kind) ==
    IF kind = SingleLineCommentTrivia THEN MultiLineCommentTrivia
    ELSE SingleLineCommentTrivia

\* a "//" comment runs to the end of its line: a newline follows it
WellFormedRegion(r) ==
    \A i \in 1..Len(r.groups) :
        r.groups[i].kind = SingleLineCommentTrivia =>
            (IF i < Len(r.groups) THEN r.groups[i + 1].nl ELSE r.last) >= 1

\* the regions of up to maxComments comments: 0..MaxNewlines newlines before
\* the first comment, between every two comments and after the last one; the
\* comments are all of one kind, or of alternating kinds
Regions(maxComments) ==
    {r \in UNION {
        {[groups |-> [i \in 1..k |->
                        [nl |-> IF i = 1 THEN before ELSE between,
                         kind |-> IF alt /\ i % 2 = 0 THEN OtherKind(first) ELSE first]],
          last |-> l] :
            before \in 0..MaxNewlines, between \in 0..MaxNewlines,
            first \in CommentKinds, alt \in BOOLEAN, l \in 0..MaxNewlines} :
        k \in 0..maxComments}
     : WellFormedRegion(r)}

RegionText(r) ==
    Concat([i \in 1..Len(r.groups) |->
               Repeat(NL, r.groups[i].nl) \o CommentChars(r.groups[i].kind, i)])
    \o Repeat(NL, r.last)

Files ==
    {[regions |-> <<>>, share |-> 0, member |-> FALSE]}
    \cup {[regions |-> <<r>>, share |-> s, member |-> FALSE] :
             r \in Regions(MaxComments), s \in 0..MaxShare}
    \cup {[regions |-> <<[groups |-> <<>>, last |-> 0], r>>,
            share |-> s, member |-> m] :
             r \in Regions(MaxComments), s \in 0..MaxShare, m \in BOOLEAN}

\* a comment on the line of the previous token is set off by a space, and
\* the token of a member is indented by one
RegionChars(f, i) ==
    (IF i > 1 /\ f.regions[i].groups # <<>> /\ f.regions[i].groups[1].nl = 0
     THEN <<SP>> ELSE <<>>)
    \o RegionText(f.regions[i])
    \o (IF f.member /\ i > 1 THEN <<SP>> ELSE <<>>)

Prefix(f, i) == Concat([j \in 1..i |-> RegionChars(f, j) \o <<TOKEN>>])

TextOf(f) == Prefix(f, Len(f.regions))

\* the offset after token i
TokEnd(f, i) == Len(Prefix(f, i))

\* the node of token i followed by its nested nodes, as a pre-order list;
\* `own` is the node's id, `up` its parent's id, `last` the last token it spans
NodeChain(f, i, own, up, last) ==
    [j \in 1..(f.share + 1) |->
        [pos |-> TokEnd(f, i - 1),
         end |-> IF j = 1 THEN TokEnd(f, last) ELSE TokEnd(f, i),
         parent |-> IF j = 1 THEN up ELSE own + j - 2,
         kind |-> OtherNode]]

TreeOf(f) ==
    LET n == Len(f.regions)
        w == f.share + 1
    IN  <<[pos |-> 0, end |-> Len(TextOf(f)), parent |-> 0, kind |-> SourceFile]>>
        \o Concat([i \in 1..n |->
              NodeChain(f, i, 2 + (i - 1) * w,
                        IF f.member /\ i > 1 THEN 2 ELSE 1,
                        IF f.member /\ i = 1 THEN n ELSE i)])

(***************************************************************************)
(* The state: the file being transformed, the PreserveBlankLinesTransformer *)
(* created for it, every node's text range and synthetic leading comments, *)
(* and the nodes the walk has still to visit.                              *)
(***************************************************************************)
VARIABLES
    sourceFileText,     \* _sourceFileText
    tree,               \* the nodes in pre-order, with the offsets the parser gave them
    firstChild,         \* _firstChild, a node id (0: there is none)
    handled,            \* _handledTriviaRanges
    deleted,            \* _deletedTriviaRanges
    range,              \* node id -> its current [pos, end]
    synthetic,          \* node id -> its synthetic leading comments
    stack,              \* the nodes whose visit is pending, the next one first
    visited,            \* the nodes addComments was called on, in order
    phase,              \* "idle", "walking", "done"
    priorRewrite        \* history: an earlier file had a region rewritten under a
                        \* key that is a region key of this file too

vars == <<sourceFileText, tree, firstChild, handled, deleted, range, synthetic,
          stack, visited, phase, priorRewrite>>

NodeIds(tr) == 1..Len(tr)

\* the children of a node, in source order
Children(tr, n) ==
    LET RECURSIVE from(_)
        from(i) == IF i > Len(tr) THEN <<>>
                   ELSE (IF tr[i].parent = n THEN <<i>> ELSE <<>>) \o from(i + 1)
    IN  from(1)

\* file.getChildAt(0).getChildAt(0): SourceFile > SyntaxList > first child
FirstChildOf(tr) == IF Children(tr, 1) = <<>> THEN 0 ELSE Head(Children(tr, 1))

(***************************************************************************)
(* PreserveBlankLinesTransformer.addComments, on the transformer state     *)
(*   t = [text, firstChild, handled, deleted, range, synthetic].           *)
(***************************************************************************)
BLANK_LINE == [pos |-> -1, end |-> -1, kind |-> "BLANK_LINE", hasTrailingNewLine |-> TRUE]

\* mutation: the source file is treated like any other node
isSourceFile_Never(tr, n) == FALSE

isSourceFile(tr, n) == tr[n].kind = SourceFile

getFullStart(t, n) == t.range[n].pos
getStart(t, n) == skipTrivia(t.text, t.range[n].pos)
getEnd(t, n) == t.range[n].end

triviaRangeKey(t, n) == <<getFullStart(t, n), getStart(t, n)>>

\* mutation: the node is collapsed onto its content start
deleteTriviaRange_CollapseEnd(t, n) ==
    [t EXCEPT !.range[n] = [pos |-> getStart(t, n), end |-> getStart(t, n)]]

\* ts.setTextRange(node, {pos: node.getStart(), end: node.getEnd()})
deleteTriviaRange(t, n) ==
    [t EXCEPT !.range[n] = [pos |-> getStart(t, n), end |-> getEnd(t, n)]]

\* mutation: each comment is pushed before the blank lines that precede it
RECURSIVE ExistingCommentsLoop_CommentFirst(_, _, _, _, _)
ExistingCommentsLoop_CommentFirst(txt, isFirstChild, comments, previousRegionEnd, newComments) ==
    IF comments = <<>>
    THEN [newComments |-> newComments, previousRegionEnd |-> previousRegionEnd]
    ELSE LET comment == Head(comments)
             leadingWhitespace == Slice(txt, previousRegionEnd, comment.pos)
         IN  ExistingCommentsLoop_CommentFirst(txt, isFirstChild, Tail(comments), comment.end,
                 IF ~isFirstChild
                 THEN newComments
                      \o <<comment>>
                      \o Repeat(BLANK_LINE, countBlankLines(leadingWhitespace))
                 ELSE newComments)

\* mutation: the comments of the first child are pushed as well
RECURSIVE ExistingCommentsLoop_FirstChildComments(_, _, _, _, _)
ExistingCommentsLoop_FirstChildComments(txt, isFirstChild, comments, previousRegionEnd, newComments) ==
    IF comments = <<>>
    THEN [newComments |-> newComments, previousRegionEnd |-> previousRegionEnd]
    ELSE LET comment == Head(comments)
             leadingWhitespace == Slice(txt, previousRegionEnd, comment.pos)
         IN  ExistingCommentsLoop_FirstChildComments(txt, isFirstChild, Tail(comments), comment.end,
                 IF ~isFirstChild
                 THEN newComments
                      \o Repeat(BLANK_LINE, countBlankLines(leadingWhitespace))
                      \o <<comment>>
                 ELSE newComments \o <<comment>>)

\* the loop over existingComments: the entries pushed and the final previousRegionEnd
RECURSIVE ExistingCommentsLoop(_, _, _, _, _)
ExistingCommentsLoop(txt, isFirstChild, comments, previousRegionEnd, newComments) ==
    IF comments = <<>>
    THEN [newComments |-> newComments, previousRegionEnd |-> previousRegionEnd]
    ELSE LET comment == Head(comments)
             leadingWhitespace == Slice(txt, previousRegionEnd, comment.pos)
         IN  ExistingCommentsLoop(txt, isFirstChild, Tail(comments), comment.end,
                 IF ~isFirstChild
                 THEN newComments
                      \o Repeat(BLANK_LINE, countBlankLines(leadingWhitespace))
                      \o <<comment>>
                 ELSE newComments)

\* mutation: a marker for every newline after the last comment
PostCommentBlankLines_EveryNewLine(txt, previousRegionEnd, start) ==
    Repeat(BLANK_LINE, CountNewLines(Slice(txt, previousRegionEnd, start)))

\* the remaining trivia after the last existing comment
PostCommentBlankLines(txt, previousRegionEnd, start) ==
    IF previousRegionEnd < start
    THEN Repeat(BLANK_LINE, countBlankLines(Slice(txt, previousRegionEnd, start)))
    ELSE <<>>

\* mutation: the first child is scanned like any other node
NewComments_FirstChildAsAny(txt, isFirstChild, fullStart, start) ==
    LET loop == ExistingCommentsLoop(txt, FALSE,
                    getLeadingCommentRanges(txt, fullStart), fullStart, <<>>)
    IN  loop.newComments \o PostCommentBlankLines(txt, loop.previousRegionEnd, start)

\* newComments as it stands after both loops
NewComments(txt, isFirstChild, fullStart, start) ==
    LET loop == ExistingCommentsLoop(txt, isFirstChild,
                    getLeadingCommentRanges(txt, fullStart), fullStart, <<>>)
    IN  loop.newComments \o PostCommentBlankLines(txt, loop.previousRegionEnd, start)

\* the flags are set exactly where an entry of that sort is pushed
anyBlankLinesToAdd(newComments) ==
    \E i \in 1..Len(newComments) : newComments[i] = BLANK_LINE
anyExistingCommentsToResynthesize(newComments) ==
    \E i \in 1..Len(newComments) : newComments[i] # BLANK_LINE

\* mutation: two characters are trimmed from the end of every comment
SyntheticComment_TrimEveryEnd(txt, comment) ==
    IF comment = BLANK_LINE
    THEN [kind |-> SingleLineCommentTrivia,
          text |-> BLANK_LINE_PLACEHOLDER_COMMENT,
          hasTrailingNewLine |-> TRUE]
    ELSE [kind |-> comment.kind,
          text |-> Slice(txt, comment.pos + 2, comment.end - 2),
          hasTrailingNewLine |-> comment.hasTrailingNewLine]

\* the arguments of ts.addSyntheticLeadingComment for one entry
SyntheticComment(txt, comment) ==
    IF comment = BLANK_LINE
    THEN [kind |-> SingleLineCommentTrivia,
          text |-> BLANK_LINE_PLACEHOLDER_COMMENT,
          hasTrailingNewLine |-> TRUE]
    ELSE [kind |-> comment.kind,
          text |-> Slice(txt, comment.pos + 2,
                         IF comment.kind = MultiLineCommentTrivia
                         THEN comment.end - 2 ELSE comment.end),
          hasTrailingNewLine |-> comment.hasTrailingNewLine]

\* the final loop: one synthetic leading comment per entry, in order
AddSyntheticComments(t, n, newComments) ==
    [t EXCEPT !.synthetic[n] =
        @ \o [i \in 1..Len(newComments) |-> SyntheticComment(t.text, newComments[i])]]

\* mutation: every region that has blank lines is deleted
Synthesize_DeleteAlways(t, n, key, newComments) ==
    AddSyntheticComments([deleteTriviaRange(t, n) EXCEPT !.deleted = @ \cup {key}],
                         n, newComments)

\* the rewrite of an unhandled region that has blank lines
Synthesize(t, n, key, newComments) ==
    LET cleared == IF anyExistingCommentsToResynthesize(newComments)
                   THEN [deleteTriviaRange(t, n) EXCEPT !.deleted = @ \cup {key}]
                   ELSE t
    IN  AddSyntheticComments(cleared, n, newComments)

\* mutation: a node that shares a deleted region keeps its trivia
HandledAlready_KeepTrivia(t, n, key) == t

\* the region was handled before: delete it from this node as well if it
\* was deleted from the node that was scanned
HandledAlready(t, n, key) ==
    IF key \in t.deleted THEN deleteTriviaRange(t, n) ELSE t

\* mutation: the key is not recorded
MarkHandled_Forget(t, key) == t

\* this._handledTriviaRanges.add(triviaRangeKey)
MarkHandled(t, key) == [t EXCEPT !.handled = @ \cup {key}]

addComments(t, tr, n) ==
    IF isSourceFile(tr, n) THEN t
    ELSE LET key == triviaRangeKey(t, n) IN
         IF key \in t.handled THEN HandledAlready(t, n, key)
         ELSE LET h == MarkHandled(t, key)
                  newComments == NewComments(t.text, n = t.firstChild,
                                             getFullStart(t, n), getStart(t, n))
              IN  IF ~anyBlankLinesToAdd(newComments) THEN h
                  ELSE Synthesize(h, n, key, newComments)

(***************************************************************************)
(* preserveBlankLinesTransformer: the transform of one file.               *)
(***************************************************************************)
\* new PreserveBlankLinesTransformer(sourceFileText, firstChild), with the
\* nodes as parsed
NewTransformer(txt, tr) ==
    [text |-> txt,
     firstChild |-> FirstChildOf(tr),
     handled |-> {},
     deleted |-> {},
     range |-> [n \in NodeIds(tr) |-> [pos |-> tr[n].pos, end |-> tr[n].end]],
     synthetic |-> [n \in NodeIds(tr) |-> <<>>]]

Transformer ==
    [text |-> sourceFileText, firstChild |-> firstChild, handled |-> handled,
     deleted |-> deleted, range |-> range, synthetic |-> synthetic]

\* the region keys of a parsed file
KeysOf(txt, tr) ==
    {<<tr[n].pos, skipTrivia(txt, tr[n].pos)>> : n \in NodeIds(tr) \ {1}}

Init ==
    /\ sourceFileText = <<>>
    /\ tree = <<>>
    /\ firstChild = 0
    /\ handled = {}
    /\ deleted = {}
    /\ range = <<>>
    /\ synthetic = <<>>
    /\ stack = <<>>
    /\ visited = <<>>
    /\ phase = "idle"
    /\ priorRewrite = FALSE

\* the parsed inputs: a text and its nodes
Parsed(f) == [text |-> TextOf(f), tree |-> TreeOf(f)]

Inputs == {Parsed(f) : f \in Files}

\* two small files: the empty text, and a token after one blank line
SmallInputs ==
    {Parsed([regions |-> <<>>, share |-> 0, member |-> FALSE]),
     Parsed([regions |-> <<[groups |-> <<>>, last |-> 2]>>, share |-> 0, member |-> FALSE])}

\* the files the host hands to the transform next: of two consecutive files
\* one is small, or the second is the first one parsed again
NextInputs ==
    IF phase = "idle" \/ [text |-> sourceFileText, tree |-> tree] \in SmallInputs
    THEN Inputs
    ELSE SmallInputs \cup {[text |-> sourceFileText, tree |-> tree]}

\* mutation: the two sets belong to the factory and outlive the file
Transform_SharedSets ==
    /\ phase \in {"idle", "done"}
    /\ \E in \in NextInputs :
       \E t \in {NewTransformer(in.text, in.tree)} :
            /\ sourceFileText' = in.text
            /\ tree' = in.tree
            /\ range' = t.range
            /\ synthetic' = t.synthetic
            /\ visited' = <<>>
            /\ priorRewrite' = (deleted \cap KeysOf(in.text, in.tree) # {})
            /\ UNCHANGED <<handled, deleted>>
            /\ IF in.text = <<>>
               THEN /\ phase' = "done"
                    /\ stack' = <<>>
                    /\ firstChild' = 0
               ELSE /\ phase' = "walking"
                    /\ stack' = <<1>>
                    /\ firstChild' = t.firstChild

\* the transform is handed a file: the empty text is returned as it is,
\* otherwise a transformer is created and ts.visitNode(file, visit) begins
Transform ==
    /\ phase \in {"idle", "done"}
    /\ \E in \in NextInputs :
       \E t \in {NewTransformer(in.text, in.tree)} :
            /\ sourceFileText' = in.text
            /\ tree' = in.tree
            /\ range' = t.range
            /\ synthetic' = t.synthetic
            /\ visited' = <<>>
            /\ priorRewrite' = (deleted \cap KeysOf(in.text, in.tree) # {})
            /\ IF in.text = <<>>
               THEN /\ phase' = "done"
                    /\ stack' = <<>>
                    /\ firstChild' = 0
                    /\ handled' = {}
                    /\ deleted' = {}
               ELSE /\ phase' = "walking"
                    /\ stack' = <<1>>
                    /\ firstChild' = t.firstChild
                    /\ handled' = t.handled
                    /\ deleted' = t.deleted

\* mutation: the children of a node are visited after its siblings
Visit_ChildrenLast ==
    /\ phase = "walking"
    /\ stack # <<>>
    /\ \E t \in {addComments(Transformer, tree, Head(stack))} :
       \E rest \in {Tail(stack) \o Children(tree, Head(stack))} :
           /\ handled' = t.handled
           /\ deleted' = t.deleted
           /\ range' = t.range
           /\ synthetic' = t.synthetic
           /\ visited' = Append(visited, Head(stack))
           /\ stack' = rest
           /\ phase' = IF rest = <<>> THEN "done" ELSE "walking"
    /\ UNCHANGED <<sourceFileText, tree, firstChild, priorRewrite>>

\* visit(node): addComments(node), then ts.visitEachChild(node, visit, context)
Visit ==
    /\ phase = "walking"
    /\ stack # <<>>
    /\ \E t \in {addComments(Transformer, tree, Head(stack))} :
       \E rest \in {Children(tree, Head(stack)) \o Tail(stack)} :
           /\ handled' = t.handled
           /\ deleted' = t.deleted
           /\ range' = t.range
           /\ synthetic' = t.synthetic
           /\ visited' = Append(visited, Head(stack))
           /\ stack' = rest
           /\ phase' = IF rest = <<>> THEN "done" ELSE "walking"
    /\ UNCHANGED <<sourceFileText, tree, firstChild, priorRewrite>>

\* ts.visitNode(file, visit) as a function of the transformer it starts with:
\* the transformer after every pending node and its descendants were visited
RECURSIVE Walk(_, _, _)
Walk(t, tr, pending) ==
    IF pending = <<>> THEN t
    ELSE Walk(addComments(t, tr, Head(pending)), tr,
              Children(tr, Head(pending)) \o Tail(pending))

Next == Transform \/ Visit

Spec == Init /\ [][Next]_vars

\* ts.visitNode(file, visit) is a synchronous recursion: a walk that has
\* begun takes its next step.  This is weak fairness of Visit, written with
\* the states in which Visit is enabled: those of a walk (its stack is not
\* empty while phase = "walking", and every visit extends `visited`)
FairSpec == Spec /\ ([]<>(phase # "walking") \/ []<><<Visit>>_vars)

(***************************************************************************)
(* Vocabulary of the properties.                                           *)
(***************************************************************************)
\* the non-root nodes addComments has been called on
VisitedNodes == {visited[i] : i \in 1..Len(visited)} \ {n \in NodeIds(tree) : tree[n].kind = SourceFile}

VisitIndex(n) == CHOOSE i \in 1..Len(visited) : visited[i] = n

\* the content start and the region key a node reports when it is parsed
ContentStart(n) == skipTrivia(sourceFileText, tree[n].pos)
RegionKey(n) == <<tree[n].pos, ContentStart(n)>>

\* n is the first node visited among those that report its key
FirstWithKey(n) ==
    \A i \in 1..Len(visited) :
        (tree[visited[i]].kind # SourceFile /\ RegionKey(visited[i]) = RegionKey(n))
            => VisitIndex(n) <= i

\* the raw trivia span of n was cleared: its full start was moved
Cleared(n) == range[n].pos # tree[n].pos
Untouched(n) == range[n] = [pos |-> tree[n].pos, end |-> tree[n].end]

\* the text of the leading trivia region of n, and its leading comments
Gap(n) == Slice(sourceFileText, tree[n].pos, ContentStart(n))
LeadingComments(n) == getLeadingCommentRanges(sourceFileText, tree[n].pos)
NoComments(str) == \A i \in 1..Len(str) : str[i] # SLASH

\* a placeholder marker as a synthetic annotation, and a run of them
Marker ==
    [kind |-> SingleLineCommentTrivia, text |-> BLANK_LINE_PLACEHOLDER_COMMENT,
     hasTrailingNewLine |-> TRUE]
Markers(k) == Repeat(Marker, k)

\* max(0, k - 1) for the k newlines of a piece of text
BlankRun(str) == Max(0, CountNewLines(str) - 1)

\* an existing comment as a synthetic annotation: same kind and flag, the
\* text between the delimiters
InnerText(c) ==
    SubSeq(sourceFileText, c.pos + 3,
           IF c.kind = MultiLineCommentTrivia THEN c.end - 2 ELSE c.end)
Resynthesized(c) ==
    [kind |-> c.kind, text |-> InnerText(c), hasTrailingNewLine |-> c.hasTrailingNewLine]

\* markers for each gap, each comment after the markers of the gap before it
RECURSIVE Interleaved(_, _, _)
Interleaved(comments, previousEnd, start) ==
    IF comments = <<>>
    THEN Markers(BlankRun(Slice(sourceFileText, previousEnd, start)))
    ELSE Markers(BlankRun(Slice(sourceFileText, previousEnd, Head(comments).pos)))
         \o <<Resynthesized(Head(comments))>>
         \o Interleaved(Tail(comments), Head(comments).end, start)

ExpectedAnnotations(n) == Interleaved(LeadingComments(n), tree[n].pos, ContentStart(n))

HasBlankLine(n) ==
    LET expected == ExpectedAnnotations(n)
    IN  \E i \in 1..Len(expected) : expected[i] = Marker

\* how often an annotation is attached, over all nodes
Occurrences(a) ==
    Cardinality({p \in UNION {{<<n, i>> : i \in 1..Len(synthetic[n])} : n \in NodeIds(tree)} :
                    synthetic[p[1]][p[2]] = a})

(***************************************************************************)
(* C1.  After a complete pass, for every trivia region key, either every   *)
(* non-root node that reports the key has had its raw trivia span cleared  *)
(* or none has.                                                            *)
(***************************************************************************)
C1_AllOrNoneCleared ==
    phase = "done" =>
        \A n, m \in VisitedNodes :
            RegionKey(n) = RegionKey(m) => (Cleared(n) <=> Cleared(m))

\* a pass has ended with a region cleared on every one of several nodes
C1_Witness ==
    /\ phase = "done"
    /\ \E n, m \in VisitedNodes :
        /\ n # m
        /\ RegionKey(n) = RegionKey(m)
        /\ Cleared(n)
        /\ Cleared(m)

(***************************************************************************)
(* C2.  A node whose leading-trivia gap contains exactly k newlines and no *)
(* comment, and whose region was not handled before, is given exactly      *)
(* max(0, k - 1) placeholder markers and nothing else.                     *)
(***************************************************************************)
C2_BlankLineCount ==
    \A n \in VisitedNodes :
        (FirstWithKey(n) /\ NoComments(Gap(n))) =>
            synthetic[n] = Markers(Max(0, CountNewLines(Gap(n)) - 1))

\* a gap of three or more newlines was scanned and gave a run of markers
C2_Witness ==
    \E n \in VisitedNodes :
        /\ FirstWithKey(n)
        /\ NoComments(Gap(n))
        /\ CountNewLines(Gap(n)) >= 3
        /\ Len(synthetic[n]) = CountNewLines(Gap(n)) - 1

(***************************************************************************)
(* C3.  A node whose leading-trivia gap contains at most one newline and   *)
(* no comment (the empty gap included) is given no synthetic annotation,   *)
(* keeps its full start and end, and its region is not recorded as         *)
(* rewritten.                                                              *)
(***************************************************************************)
C3_NoBlankLineNoChange ==
    \A n \in VisitedNodes :
        (CountNewLines(Gap(n)) <= 1 /\ NoComments(Gap(n))) =>
            /\ synthetic[n] = <<>>
            /\ Untouched(n)
            /\ RegionKey(n) \notin deleted

\* a region of exactly one newline, and an empty one, were handled
C3_Witness ==
    /\ \E n \in VisitedNodes :
        /\ Gap(n) = <<NL>>
        /\ RegionKey(n) \in handled
    /\ \E n \in VisitedNodes :
        /\ Gap(n) = <<>>
        /\ RegionKey(n) \in handled

(***************************************************************************)
(* C4.  As claimed: every visited node that is not the first child and     *)
(* whose region has a blank line carries the markers of each gap and the   *)
(* existing comments, interleaved in source order.                         *)
(***************************************************************************)
C4_Original ==
    \A n \in VisitedNodes :
        (n # firstChild /\ HasBlankLine(n)) => synthetic[n] = ExpectedAnnotations(n)

(***************************************************************************)
(* C4, amended.  The same for the node that is the first one visited with  *)
(* its region key: max(0, n_i - 1) markers before each existing comment    *)
(* c_i, the comment itself, and max(0, n_last - 1) markers after the last  *)
(* one; no comment is dropped, duplicated or reordered.                    *)
(***************************************************************************)
C4_Interleaving ==
    \A n \in VisitedNodes :
        (n # firstChild /\ FirstWithKey(n) /\ HasBlankLine(n)) =>
            synthetic[n] = ExpectedAnnotations(n)

\* two comments with blank lines before, between and after them were rewritten
C4_Witness ==
    \E n \in VisitedNodes :
        /\ n # firstChild
        /\ FirstWithKey(n)
        /\ Len(LeadingComments(n)) = 2
        /\ Len(synthetic[n]) >= 5
        /\ synthetic[n][1] = Marker
        /\ synthetic[n][2] # Marker
        /\ synthetic[n][3] = Marker
        /\ synthetic[n][Len(synthetic[n])] = Marker

(***************************************************************************)
(* C5.  Among the nodes that report one region key only the first one      *)
(* visited is given synthetic annotations; when it was cleared, each later *)
(* one is cleared as it is visited; and after the pass every leading       *)
(* comment of a region is either left as raw trivia and attached nowhere,  *)
(* or raw on no node of the region and attached exactly once.              *)
(***************************************************************************)
C5_ScannedOnce ==
    /\ \A n \in VisitedNodes : synthetic[n] # <<>> => FirstWithKey(n)
    /\ \A n, m \in VisitedNodes :
        (Cleared(m) /\ ~Cleared(n) /\ RegionKey(n) = RegionKey(m)) => ~FirstWithKey(m)
    /\ phase = "done" =>
        \A n \in VisitedNodes :
            LET comments == LeadingComments(n)
                raw == \E m \in VisitedNodes : ~Cleared(m) /\ RegionKey(m) = RegionKey(n)
            IN  \A i \in 1..Len(comments) :
                    Occurrences(Resynthesized(comments[i])) = IF raw THEN 0 ELSE 1

\* a rewritten region shared by two nodes: the second one visited is cleared
\* and carries nothing
C5_Witness ==
    /\ phase = "done"
    /\ \E n, m \in VisitedNodes :
        /\ n # m
        /\ RegionKey(n) = RegionKey(m)
        /\ FirstWithKey(m)
        /\ LeadingComments(m) # <<>>
        /\ Cleared(m)
        /\ synthetic[m] # <<>>
        /\ Cleared(n)
        /\ synthetic[n] = <<>>

(***************************************************************************)
(* C6.  As claimed: the first child is given no marker for the blank lines *)
(* before and between its leading comments, nor for those before its first *)
(* line when it has no leading comment, and max(0, k - 1) markers for the  *)
(* k newlines between its last leading comment and its content start.      *)
(***************************************************************************)
\* the gap after the last leading comment of n
LastGap(n) ==
    LET cs == LeadingComments(n)
    IN  Slice(sourceFileText,
              IF cs = <<>> THEN tree[n].pos ELSE cs[Len(cs)].end,
              ContentStart(n))

C6_Original ==
    firstChild \in VisitedNodes =>
        synthetic[firstChild] =
            IF LeadingComments(firstChild) = <<>> THEN <<>>
            ELSE Markers(BlankRun(LastGap(firstChild)))

(***************************************************************************)
(* C6, amended.  The first child is given no marker for the blank lines    *)
(* before and between its leading comments; it is given max(0, k - 1)      *)
(* markers for the k newlines between the end of its last leading comment, *)
(* or its full start when it has no leading comment, and its content       *)
(* start, and nothing else.                                                *)
(***************************************************************************)
C6_FirstChild ==
    firstChild \in VisitedNodes =>
        synthetic[firstChild] = Markers(BlankRun(LastGap(firstChild)))

\* a first child with blank lines before, between and after two comments
\* was given the markers of the last gap alone
C6_Witness ==
    /\ firstChild \in VisitedNodes
    /\ Len(LeadingComments(firstChild)) = 2
    /\ BlankRun(Slice(sourceFileText, 0, LeadingComments(firstChild)[1].pos)) >= 1
    /\ BlankRun(Slice(sourceFileText, LeadingComments(firstChild)[1].end,
                      LeadingComments(firstChild)[2].pos)) >= 1
    /\ BlankRun(LastGap(firstChild)) >= 1
    /\ synthetic[firstChild] = Markers(BlankRun(LastGap(firstChild)))

\* the printer's rendering of a synthetic comment: the delimiters are re-added
Delimited(a) ==
    IF a.kind = SingleLineCommentTrivia THEN <<SLASH, SLASH>> \o a.text
    ELSE <<SLASH, STAR>> \o a.text \o <<STAR, SLASH>>

(***************************************************************************)
(* The TypeScript printer, for the text between two tokens: the comments   *)
(* on the line of the previous token, a line break, then for each node     *)
(* that begins at the next token its leading comments and its synthetic    *)
(* comments, each on a line of its own at the indentation of the node.     *)
(***************************************************************************)

\* the nesting depth the printer indents a node by
RECURSIVE Depth(_)
Depth(n) == IF tree[n].parent <= 1 THEN 0 ELSE 1 + Depth(tree[n].parent)
Indentation(n) == Repeat(SP, Depth(n))

\* the writer: a piece is indented when it begins a line
Write(out, indent, piece) ==
    IF out # <<>> /\ out[Len(out)] = NL THEN out \o indent \o piece ELSE out \o piece

\* a comment as the printer writes it: its text, then a line break or a space
CommentPiece(chars, kind, newLine) ==
    chars \o (IF newLine THEN <<NL>> ELSE <<SP>>)

\* the comments on the line of the previous token, written after it
RECURSIVE TrailingComments(_)
TrailingComments(pos) ==
    LET ch == CharAt(sourceFileText, pos)
        nx == CharAt(sourceFileText, pos + 1)
    IN  IF ch = SP THEN TrailingComments(pos + 1)
        ELSE IF ch = SLASH /\ nx = SLASH THEN
            LET e == EndOfSingleLine(sourceFileText, pos + 2)
            IN  <<SP>> \o SubSeq(sourceFileText, pos + 1, e) \o TrailingComments(e)
        ELSE IF ch = SLASH /\ nx = STAR THEN
            LET e == EndOfMultiLine(sourceFileText, pos + 2)
            IN  <<SP>> \o SubSeq(sourceFileText, pos + 1, e) \o TrailingComments(e)
        ELSE <<>>

\* the nodes that report the key of n, outermost first
Sharing(n) ==
    LET RECURSIVE from(_)
        from(i) == IF i > Len(tree) THEN <<>>
                   ELSE (IF i # 1 /\ RegionKey(i) = RegionKey(n) THEN <<i>> ELSE <<>>) \o from(i + 1)
    IN  from(1)

\* the comments the printer writes for node m: the leading comments of the
\* source at its full start, unless its parent has the same full start, then
\* its synthetic comments
RawPieces(rng, m) ==
    IF rng[m].pos = rng[tree[m].parent].pos THEN <<>>
    ELSE LET cs == getLeadingCommentRanges(sourceFileText, rng[m].pos)
         IN  [i \in 1..Len(cs) |->
                CommentPiece(SubSeq(sourceFileText, cs[i].pos + 1, cs[i].end),
                             cs[i].kind, cs[i].hasTrailingNewLine)]
SyntheticPieces(syn, m) ==
    [i \in 1..Len(syn[m]) |->
        CommentPiece(Delimited(syn[m][i]), syn[m][i].kind,
                     syn[m][i].hasTrailingNewLine \/ syn[m][i].kind = SingleLineCommentTrivia)]

RECURSIVE WriteAll(_, _, _)
WriteAll(out, indent, pieces) ==
    IF pieces = <<>> THEN out
    ELSE WriteAll(Write(out, indent, Head(pieces)), indent, Tail(pieces))

\* what the printer writes between the previous token and the token of n,
\* for given ranges and synthetic comments
PrintedBefore(rng, syn, n) ==
    LET nodes == Sharing(n)
        pieces == Concat([k \in 1..Len(nodes) |->
                     RawPieces(rng, nodes[k]) \o SyntheticPieces(syn, nodes[k])])
        out == WriteAll(TrailingComments(tree[n].pos) \o <<NL>>, Indentation(n), pieces)
        full == Write(out, Indentation(n), <<TOKEN>>)
    IN  SubSeq(full, 1, Len(full) - 1)

\* the text without its blank lines
RECURSIVE Squeezed(_, _)
Squeezed(str, out) ==
    IF str = <<>> THEN out
    ELSE Squeezed(Tail(str),
                  IF Head(str) = NL /\ out # <<>> /\ out[Len(out)] = NL THEN out
                  ELSE Append(out, Head(str)))


ParsedRanges == [n \in NodeIds(tree) |-> [pos |-> tree[n].pos, end |-> tree[n].end]]
NoSynthetic == [n \in NodeIds(tree) |-> <<>>]

\* the region of n is laid out as the printer lays it out, blank lines apart
InPrintedLayout(n) ==
    Squeezed(Gap(n), <<>>) = PrintedBefore(ParsedRanges, NoSynthetic, n)

\* n is the node that is scanned for a region between two tokens
BetweenTokens(n) == n \in VisitedNodes /\ tree[n].pos > 0 /\ FirstWithKey(n)

(***************************************************************************)
(* C7.  After the pass, the text between two statements or class members,  *)
(* printed and with every placeholder comment replaced by a newline, is    *)
(* the original text: every run of blank lines is there again with its     *)
(* length, at its position.  (Stated for the texts that printing alone     *)
(* would change in their blank lines only.)                                *)
(***************************************************************************)
C7_RoundTrip ==
    phase = "done" =>
        \A n \in NodeIds(tree) :
            (BetweenTokens(n) /\ InPrintedLayout(n)) =>
                Substituted(PrintedBefore(range, synthetic, n), 1) = Gap(n)

\* a comment on the line of the previous token holds a newline
TrailingCommentSpansLines(n) ==
    \E k \in 1..Len(TrailingComments(tree[n].pos)) :
        TrailingComments(tree[n].pos)[k] = NL

\* the round trip of C7 is exact on every region that holds no such comment
RoundTripWithoutSpanningTrailingComment ==
    phase = "done" =>
        \A n \in NodeIds(tree) :
            (BetweenTokens(n) /\ InPrintedLayout(n) /\ ~TrailingCommentSpansLines(n)) =>
                Substituted(PrintedBefore(range, synthetic, n), 1) = Gap(n)

(***************************************************************************)
(* C8.  Every synthetic annotation is either a single-line comment with    *)
(* the placeholder as its text and a forced trailing newline, or, for the  *)
(* j-th existing comment of the region, a comment of the same kind, with   *)
(* the flag that tells whether a newline follows the comment in the        *)
(* source, and a text that gives back the original comment, character for  *)
(* character, once the delimiters are added again.                         *)
(***************************************************************************)
\* a newline follows offset pos, with nothing but spaces before it
RECURSIVE NewLineFollows(_)
NewLineFollows(pos) ==
    IF CharAt(sourceFileText, pos) = SP THEN NewLineFollows(pos + 1)
    ELSE CharAt(sourceFileText, pos) = NL

\* how many of the first i annotations of n are existing comments
CommentsAmong(n, i) ==
    Cardinality({j \in 1..i : synthetic[n][j].text # BLANK_LINE_PLACEHOLDER_COMMENT})

C8_Rendering ==
    \A n \in VisitedNodes :
    \A i \in 1..Len(synthetic[n]) :
        LET a == synthetic[n][i] IN
        IF a.text = BLANK_LINE_PLACEHOLDER_COMMENT
        THEN a.kind = SingleLineCommentTrivia /\ a.hasTrailingNewLine
        ELSE /\ CommentsAmong(n, i) <= Len(LeadingComments(n))
             /\ LET c == LeadingComments(n)[CommentsAmong(n, i)] IN
                /\ a.kind = c.kind
                /\ a.hasTrailingNewLine = NewLineFollows(c.end)
                /\ Delimited(a) = SubSeq(sourceFileText, c.pos + 1, c.end)

\* a block comment that spans two lines and a line comment were both
\* resynthesized next to a marker
C8_Witness ==
    \E n \in VisitedNodes :
        /\ \E i \in 1..Len(synthetic[n]) : synthetic[n][i] = Marker
        /\ \E i \in 1..Len(synthetic[n]) :
            /\ synthetic[n][i].kind = MultiLineCommentTrivia
            /\ \E k \in 1..Len(synthetic[n][i].text) : synthetic[n][i].text[k] = NL
        /\ \E i \in 1..Len(synthetic[n]) :
            /\ synthetic[n][i].kind = SingleLineCommentTrivia
            /\ synthetic[n][i] # Marker

(***************************************************************************)
(* C9.  addComments on the source file node changes nothing: no annotation *)
(* is attached, no range is moved and both sets stay empty, and the source *)
(* file itself is never annotated nor cleared; so the first child, which   *)
(* shares its region, is scanned as an unhandled region.                   *)
(***************************************************************************)
C9_RootSkipped ==
    /\ (phase = "walking" /\ visited = <<1>>) =>
        /\ handled = {}
        /\ deleted = {}
        /\ \A n \in NodeIds(tree) : Untouched(n) /\ synthetic[n] = <<>>
    /\ phase \in {"walking", "done"} /\ tree # <<>> =>
        Untouched(1) /\ synthetic[1] = <<>>
    /\ firstChild \in VisitedNodes =>
        /\ RegionKey(firstChild) \in handled
        /\ synthetic[firstChild] = Markers(BlankRun(LastGap(firstChild)))

\* the source file was visited, and the region it shares with the first
\* child has blank lines and a comment
C9_Witness ==
    /\ phase = "walking"
    /\ visited = <<1>>
    /\ firstChild # 0
    /\ tree[firstChild].pos = tree[1].pos
    /\ LeadingComments(firstChild) # <<>>
    /\ HasBlankLine(firstChild)

(***************************************************************************)
(* C10.  Each invocation begins with both sets empty, and the ranges and   *)
(* annotations it ends with are those of a walk of the same file that      *)
(* starts from a new transformer, whatever files were transformed before.  *)
(***************************************************************************)
C10_FreshSetsPerFile ==
    /\ (phase = "walking" /\ visited = <<>>) => (handled = {} /\ deleted = {})
    /\ (phase = "done" /\ sourceFileText # <<>>) =>
        LET fresh == Walk(NewTransformer(sourceFileText, tree), tree, <<1>>)
        IN  /\ range = fresh.range
            /\ synthetic = fresh.synthetic
            /\ handled = fresh.handled
            /\ deleted = fresh.deleted

\* a file was transformed after one that had rewritten a region under one of
\* its keys, and that region was rewritten again
C10_Witness ==
    /\ phase = "done"
    /\ priorRewrite
    /\ \E n \in VisitedNodes : Cleared(n) /\ synthetic[n] # <<>>

(***************************************************************************)
(* C11.  The pass alters trivia attachments only: while a file is walked   *)
(* its nodes keep their kind, their parent and their order; at every point *)
(* each node has the end the parser gave it, the content start the parser  *)
(* gave it, and as full start either the parsed one or, once cleared, its  *)
(* content start; and full start <= content start <= end.                  *)
(***************************************************************************)
\* the content start of n as the node reports it now
CurrentStart(n) == skipTrivia(sourceFileText, range[n].pos)

StructureKept ==
    \A n \in NodeIds(tree) :
        /\ range[n].end = tree[n].end
        /\ CurrentStart(n) = ContentStart(n)
        /\ range[n].pos \in {tree[n].pos, ContentStart(n)}
        /\ range[n].pos <= CurrentStart(n)
        /\ CurrentStart(n) <= range[n].end

WalkKeepsNodes ==
    phase = "walking" =>
        /\ tree' = tree
        /\ sourceFileText' = sourceFileText
        /\ firstChild' = firstChild
        /\ \A n \in NodeIds(tree) :
            /\ range'[n].end = range[n].end
            /\ range'[n].pos \in {range[n].pos, CurrentStart(n)}
            /\ Len(synthetic'[n]) >= Len(synthetic[n])
            /\ SubSeq(synthetic'[n], 1, Len(synthetic[n])) = synthetic[n]

C11_OnlyTriviaAltered == [](StructureKept) /\ [][WalkKeepsNodes]_vars

\* a pass has ended with one node cleared and annotated, and another one
\* that kept its range
C11_Witness ==
    /\ phase = "done"
    /\ \E n, m \in VisitedNodes :
        /\ Cleared(n)
        /\ range[n].pos = ContentStart(n)
        /\ range[n].pos < range[n].end
        /\ synthetic[n] # <<>>
        /\ Untouched(m)

(***************************************************************************)
(* C12.  At every point the rewritten set is a subset of the handled set;  *)
(* during a walk both sets only grow; a region key is in the rewritten set *)
(* exactly if the first node visited with it was given a marker and had a  *)
(* leading comment to resynthesize (it is not the first child).  A region  *)
(* with comments and no blank line, and one with blank lines and no        *)
(* comment, is handled, not rewritten, and its nodes keep their trivia.    *)
(***************************************************************************)
GivenMarker(n) == \E i \in 1..Len(synthetic[n]) : synthetic[n][i] = Marker

HadCommentToResynthesize(n) == n # firstChild /\ LeadingComments(n) # <<>>

RewrittenWithinHandled ==
    /\ deleted \subseteq handled
    /\ handled = {RegionKey(n) : n \in VisitedNodes}
    /\ \A n \in VisitedNodes :
        FirstWithKey(n) =>
            (RegionKey(n) \in deleted <=> (GivenMarker(n) /\ HadCommentToResynthesize(n)))
    /\ \A n \in VisitedNodes :
        (\/ LeadingComments(n) # <<>> /\ ~HasBlankLine(n)
         \/ LeadingComments(n) = <<>> /\ HasBlankLine(n)) =>
            /\ RegionKey(n) \in handled \ deleted
            /\ Untouched(n)

SetsGrow == phase = "walking" => (handled \subseteq handled' /\ deleted \subseteq deleted')

C12_RewrittenSubset == [](RewrittenWithinHandled) /\ [][SetsGrow]_vars

\* during a walk one region has been rewritten and another one is handled
\* and not rewritten
C12_Witness ==
    /\ phase = "walking"
    /\ deleted # {}
    /\ handled \ deleted # {}
    /\ \E n \in VisitedNodes :
        /\ FirstWithKey(n)
        /\ RegionKey(n) \in deleted
        /\ GivenMarker(n)
        /\ LeadingComments(n) # <<>>

\* regions with comments and no blank line, and with blank lines and no
\* comment, have been handled
CommentsOnlyHandled ==
    \E n \in VisitedNodes : n # firstChild /\ LeadingComments(n) # <<>> /\ ~HasBlankLine(n)
BlankLinesOnlyHandled ==
    \E n \in VisitedNodes : n # firstChild /\ LeadingComments(n) = <<>> /\ HasBlankLine(n)

(***************************************************************************)
(* C13.  As claimed: among the nodes that share a region along an ancestor *)
(* chain, the source file included, only the outermost one is given        *)
(* annotations.                                                            *)
(***************************************************************************)
\* the proper ancestors of n, the source file included
RECURSIVE Ancestors(_)
Ancestors(n) ==
    IF tree[n].parent = 0 THEN {} ELSE {tree[n].parent} \cup Ancestors(tree[n].parent)

\* the ancestors of n that report the region key of n
SharingAncestors(n) == {m \in Ancestors(n) : RegionKey(m) = RegionKey(n)}

C13_Original ==
    \A n \in VisitedNodes : synthetic[n] # <<>> => SharingAncestors(n) = {}

(***************************************************************************)
(* C13, amended.  The walk calls addComments on every node exactly once,   *)
(* in pre-order: a node before its descendants, a subtree before the next  *)
(* sibling.  So among the nodes other than the source file that share a    *)
(* region along an ancestor chain, the outermost one is the first visited  *)
(* with the key and is the one that is scanned and annotated, the others   *)
(* are given nothing; and every walk that has begun ends.                  *)
(***************************************************************************)
\* n has no ancestor, other than the source file, that reports its region key
Outermost(n) == \A m \in SharingAncestors(n) : tree[m].kind = SourceFile

\* the nodes are numbered in pre-order
PreOrder ==
    /\ \A i \in 1..Len(visited) : visited[i] = i
    /\ \A n \in VisitedNodes : \A m \in Ancestors(n) : VisitIndex(m) < VisitIndex(n)
    /\ (phase = "done" /\ sourceFileText # <<>>) => Len(visited) = Len(tree)
    /\ phase = "walking" => stack # <<>>

OutermostScanned ==
    \A n \in VisitedNodes :
        /\ Outermost(n) <=> FirstWithKey(n)
        /\ ~Outermost(n) => synthetic[n] = <<>>
        /\ Outermost(n) =>
            synthetic[n] = IF n = firstChild THEN Markers(BlankRun(LastGap(n)))
                           ELSE IF HasBlankLine(n) THEN ExpectedAnnotations(n)
                           ELSE <<>>

C13_PreOrderWalk ==
    /\ [](PreOrder /\ OutermostScanned)
    /\ (phase = "walking") ~> (phase = "done")

\* a walk has ended on a tree in which a node and its child share a rewritten
\* region: the node is annotated, the child is not
C13_Witness ==
    /\ phase = "done"
    /\ Len(visited) = Len(tree)
    /\ \E n, m \in VisitedNodes :
        /\ m \in Ancestors(n)
        /\ RegionKey(m) = RegionKey(n)
        /\ Outermost(m)
        /\ synthetic[m] # <<>>
        /\ synthetic[n] = <<>>

(***************************************************************************)
(* C14.  The region of the first child is never rewritten: whatever it     *)
(* holds, the first child keeps its range and is given placeholder markers *)
(* only, its key is never in the rewritten set, no node that shares the    *)
(* region is cleared or annotated, and none of the region's comments is    *)
(* attached to any node.                                                   *)
(***************************************************************************)
\* the visited nodes that report the region key of the first child
FirstRegionNodes == {n \in VisitedNodes : RegionKey(n) = RegionKey(firstChild)}

C14_FirstRegionKept ==
    firstChild \in VisitedNodes =>
        LET comments == LeadingComments(firstChild)
        IN  /\ \A i \in 1..Len(synthetic[firstChild]) : synthetic[firstChild][i] = Marker
            /\ RegionKey(firstChild) \notin deleted
            /\ \A n \in FirstRegionNodes :
                /\ Untouched(n)
                /\ n # firstChild => synthetic[n] = <<>>
            /\ \A i \in 1..Len(comments) : Occurrences(Resynthesized(comments[i])) = 0

\* the first child has comments with blank lines before and after them, was
\* given markers, and a node that shares its region was visited
C14_Witness ==
    /\ firstChild \in VisitedNodes
    /\ LeadingComments(firstChild) # <<>>
    /\ CountNewLines(Slice(sourceFileText, tree[firstChild].pos,
                           LeadingComments(firstChild)[1].pos)) >= 2
    /\ synthetic[firstChild] # <<>>
    /\ \E n \in FirstRegionNodes : n # firstChild

====
